---------------------------- MODULE Spec2Model ----------------------------
(***************************************************************************)
(* Model of the route fuel-optimization pipeline of efficient_route_planner *)
(*                                                                         *)
(*   router_engine/fuel_optimizer.py  optimize_fuel_stops_with_detours     *)
(*   router_engine/processor.py       RouteProcessorService.execute        *)
(*                                                                         *)
(* Numbers.  The code computes in floats; the model computes in fixed      *)
(* point.  A distance or a fuel level (fuel is held in miles of range) is  *)
(* an integer number of 1/MileUnit miles, a quantity of gallons an integer *)
(* number of 1/GalUnit gallons, a price an integer number of 1/PriceUnit   *)
(* dollars per gallon and an amount of money an integer number of          *)
(* 1/MoneyUnit dollars.  The tolerance EPS = 1e-6 of the code is smaller   *)
(* than one unit of any of these, so on fixed-point values                 *)
(*      x >  y + EPS   is   x >  y                                         *)
(*      x <  y + EPS   is   x <= y                                         *)
(*      x < -EPS       is   x <  0                                         *)
(* Rounding to d decimals snaps a value to the nearest multiple of         *)
(* unit / 10^d.                                                            *)
(***************************************************************************)
EXTENDS Integers, Sequences, FiniteSets, TLC

\* ------------------------------------------------------------------------
\* Units of the fixed-point representation
\* ------------------------------------------------------------------------
MileUnit  == 10^4               \* units per mile
GalUnit   == 10 * MileUnit      \* units per gallon
PriceUnit == 10^1               \* units per dollar-per-gallon
MoneyUnit == GalUnit * PriceUnit \* units per dollar (gallons x price)

Miles(n) == n * MileUnit

\* ------------------------------------------------------------------------
\* Program constants (fuel_optimizer.py)
\* ------------------------------------------------------------------------
MAX_RANGE == Miles(500)
MPG == 10

\* ------------------------------------------------------------------------
\* Bounds and input domains of the model
\* ------------------------------------------------------------------------
MaxStations == 2

RouteMiles     == {Miles(200), Miles(490), Miles(500), Miles(600)}
TotalDistances == {Miles(500), Miles(500) + 2, Miles(990)}
Prices         == {0, 30, 35}
\* a station is on the route (projected less than 0.1 mile away, so with a
\* detour_miles under 0.2 mile) or off it with a detour of up to 10 miles
StationKinds   == { [on_route |-> TRUE,  detour_miles |-> MileUnit \div 10],
                    [on_route |-> FALSE, detour_miles |-> Miles(10)] }

\* the name of the k-th station of the input (the projector names a station
\* by its row label)
StationName(k) == "s" \o ToString(k)

StationsAt(k, total) ==
    { [route_mile |-> m, price |-> p, name |-> StationName(k),
       detour_miles |-> kd.detour_miles, on_route |-> kd.on_route] :
         m \in {x \in RouteMiles : x <= total}, p \in Prices, kd \in StationKinds }

RECURSIVE StationLists(_, _)
StationLists(n, total) ==
    IF n = 0 THEN { <<>> }
    ELSE { Append(l, s) : l \in StationLists(n - 1, total), s \in StationsAt(n, total) }

InputLists(total) == UNION { StationLists(n, total) : n \in 0..MaxStations }

\* ------------------------------------------------------------------------
\* Pure helpers of optimize_fuel_stops_with_detours
\* ------------------------------------------------------------------------
Max(a, b) == IF a >= b THEN a ELSE b

\* round(x, d) with unit / 10^d = q, as the set of its outcomes.  The code
\* rounds the binary float that carries x.  Off a decimal tie that is the
\* nearest multiple of q.  On a decimal tie the float lies a representation
\* error under or over the tie (round(0.155, 2) is 0.15, round(0.165, 2) is
\* 0.17, round(33.635, 2) is 33.63, round(91.385, 2) is 91.39), and an exact
\* one goes to the even neighbour: the outcome is one of the two neighbours,
\* and which one is not a function of x.
RoundTo(x, q) ==
    LET lo == x \div q
        r  == x % q
    IN  IF 2 * r < q THEN {lo * q}
        ELSE IF 2 * r > q THEN {(lo + 1) * q}
        ELSE {lo * q, (lo + 1) * q}

Round4Gallons(g) == RoundTo(g, GalUnit \div 10^4)
Round2Money(c)   == RoundTo(c, MoneyUnit \div 10^2)
Round2Miles(d)   == RoundTo(d, MileUnit \div 10^2)

\* gallons = required_fuel / MPG
GallonsFor(required_fuel) == (required_fuel * (GalUnit \div MileUnit)) \div MPG
\* gallons * MPG
RangeOf(g) == (g * MPG) \div (GalUnit \div MileUnit)
\* gallons * station["price"]
CostOf(gallons, price) == gallons * price

\* sorted(stations, key=lambda s: s["route_mile"]): stable
RECURSIVE InsertByRouteMile(_, _)
InsertByRouteMile(sorted, s) ==
    IF sorted = <<>> THEN <<s>>
    ELSE IF sorted[Len(sorted)].route_mile <= s.route_mile THEN Append(sorted, s)
    ELSE Append(InsertByRouteMile(SubSeq(sorted, 1, Len(sorted) - 1), s),
                sorted[Len(sorted)])

RECURSIVE SortByRouteMile(_)
SortByRouteMile(list) ==
    IF list = <<>> THEN <<>>
    ELSE InsertByRouteMile(SortByRouteMile(SubSeq(list, 1, Len(list) - 1)),
                           list[Len(list)])

Destination(total) ==
    [route_mile |-> total, price |-> 0, name |-> "DESTINATION",
     detour_miles |-> 0, on_route |-> TRUE]

WithDestination(total, list) == Append(SortByRouteMile(list), Destination(total))

\* station.get("detour_miles", 0) if not station.get("on_route", False) else 0
DetourNeeded(station) == IF ~station.on_route THEN station.detour_miles ELSE 0

\* mutant: the distance is taken from the start of the route
TravelDistance_FromStart(station, p) == station.route_mile

\* dist_to_route_pos = station["route_mile"] - pos
TravelDistance(station, p) == station.route_mile - p

\* mutant: the level is clamped before it is tested
OutOfFuel_AfterClamp(f) == Max(0, f) < 0

\* if fuel < -EPS: raise
OutOfFuel(f) == f < 0

\* if detour_needed > fuel + EPS: skip this station
CannotDetour(detour_needed, f) == detour_needed > f

\* pos += detour_needed
PosAfterDetour(p, detour_needed) == p + detour_needed

NoPurchase == [gallons |-> 0, buy_reason |-> ""]

\* mutant: the detour of the station aimed at is not counted
BuyToReach_NoNextDetour(station, next_station, f, p) ==
    LET detour_needed == DetourNeeded(station)
        base == next_station.route_mile - p
        required_miles == IF detour_needed > 0 /\ f <= detour_needed
                          THEN base + detour_needed ELSE base
        required_fuel == required_miles - f
    IN  IF required_fuel > 0
        THEN [gallons |-> GallonsFor(required_fuel),
              buy_reason |-> "to reach cheaper station at " \o next_station.name]
        ELSE NoPurchase

\* the body of "if next_station['price'] < station['price']"
BuyToReach(station, next_station, f, p) ==
    LET detour_needed == DetourNeeded(station)
        distance_to_next_route == next_station.route_mile - p
        next_detour == DetourNeeded(next_station)
        base == distance_to_next_route + next_detour
        required_miles == IF detour_needed > 0 /\ f <= detour_needed
                          THEN base + detour_needed ELSE base
        required_fuel == required_miles - f
    IN  IF required_fuel > 0
        THEN [gallons |-> GallonsFor(required_fuel),
              buy_reason |-> "to reach cheaper station at " \o next_station.name]
        ELSE NoPurchase

\* the else branch of the lookahead loop
FillTank(station, f) ==
    LET detour_needed == DetourNeeded(station)
        max_useful_fuel == IF detour_needed > 0 THEN MAX_RANGE - detour_needed
                           ELSE MAX_RANGE
        required_fuel == max_useful_fuel - f
    IN  IF required_fuel > 0
        THEN [gallons |-> GallonsFor(required_fuel),
              buy_reason |-> "fill tank (no cheaper stations ahead)"]
        ELSE NoPurchase

\* for j, next_station in enumerate(stations[i + 1:], i + 1): ... else: ...
RECURSIVE Lookahead(_, _, _, _, _)
Lookahead(sts, k, j, f, p) ==
    IF j > Len(sts) THEN FillTank(sts[k], f)
    ELSE LET next_station == sts[j]
             total_distance_to_next ==
                 (next_station.route_mile - p) + DetourNeeded(next_station)
         IN  IF total_distance_to_next > MAX_RANGE THEN NoPurchase
             ELSE IF next_station.price < sts[k].price
                  THEN BuyToReach(sts[k], next_station, f, p)
                  ELSE Lookahead(sts, k, j + 1, f, p)

\* the keys stop_info sets over those of the station
StopKeys == {"gallons", "cost", "detour_miles", "buy_reason"}

\* stop_info = {**station, "gallons": ..., "cost": ..., "detour_miles": ...,
\* "buy_reason": ...}: every key of the station, the four keys above set to
\* the rounded purchase; one record for every outcome of the three roundings
StopInfo(station, g, reason) ==
    { [k \in DOMAIN station \cup StopKeys |->
          CASE k = "gallons" -> rg
            [] k = "cost" -> rc
            [] k = "detour_miles" -> rd
            [] k = "buy_reason" -> reason
            [] OTHER -> station[k]] :
        rg \in Round4Gallons(g),
        rc \in Round2Money(CostOf(g, station.price)),
        rd \in Round2Miles(DetourNeeded(station)) }

\* ------------------------------------------------------------------------
\* State of one call of optimize_fuel_stops_with_detours
\* ------------------------------------------------------------------------
VARIABLES
    total_distance,   \* argument
    input,            \* argument: the station list as passed
    stations,         \* local: sorted, with the virtual destination
    fuel, pos, total_cost, stops, i,   \* locals (i is 1-based here)
    gallons, buy_reason,               \* locals of one iteration
    pc,               \* position in the function
    raised,           \* message of the RuntimeError raised, or ""
    returned          \* the returned pair, or <<>>

optVars == <<total_distance, input, stations, fuel, pos, total_cost, stops, i,
             gallons, buy_reason, pc, raised, returned>>

\* ------------------------------------------------------------------------
\* State of the request pipeline (processor.py)
\* ------------------------------------------------------------------------
VARIABLES
    cache_store,      \* the cache backend: key -> stored plan
    disk,             \* the station CSV on disk (a dataset, or unreadable)
    th,               \* per request thread: position in execute and its locals
    started,          \* number of execute calls started so far
    served            \* history: the requests this process has answered with the
                      \* cache working, the dataset and the entries untouched since

procVars == <<cache_store, disk, th, started, served>>

\* calls of the pure functions that are followed on their own:
\*   keys  the (arguments, key) pairs of the _generate_key calls made so far
VARIABLES
    keys

\* FuelStationRepository:
\*   instance  the class attribute _instance: <<>> (None) or <<object id>>
\*   objects   the repository objects made so far, each by its _stations_df:
\*             <<>> (None) or <<dataset>>
\* and, when the repository is followed on its own with several threads:
\*   rt        what each thread is doing in the repository
\*   loads     how many times read_csv has read the catalogue
\*   hashes    the (dataset, fingerprint) pairs get_stations_hash has given
\*   repo_calls  how many repository calls were started
VARIABLES
    instance, objects, rt, loads, hashes, repo_calls

repoRest == <<rt, loads, hashes, repo_calls>>

repoVars == <<instance, objects, repoRest>>

\* project_stations_with_detours (with cumulative_distances) followed on its own:
\*   route_coords  the waypoints given, as (lat, lon) in thousandths of a degree
\*   stations_in   the rows of stations_df given
\*   cumd          the profile cumulative_distances returned, once computed
\*   frame         the rows of the working DataFrame
\*   all_results   the records built for the rows
\*   projected     what the call returned, or the error it raised
\*   ppc           where the call is
VARIABLES
    route_coords, stations_in, cumd, frame, all_results, projected, ppc

planVars == <<route_coords, stations_in, cumd, frame, all_results, projected, ppc>>

fnVars == <<keys, repoVars, planVars>>

vars == <<optVars, procVars, fnVars>>

OptInit ==
    /\ total_distance \in TotalDistances
    /\ input \in InputLists(total_distance)
    /\ stations = <<>>
    /\ fuel = 0 /\ pos = 0 /\ total_cost = 0 /\ stops = <<>> /\ i = 1
    /\ gallons = 0 /\ buy_reason = ""
    /\ pc = "call"
    /\ raised = ""
    /\ returned = <<>>

\* lines 11-28
Enter ==
    /\ pc = "call"
    /\ stations' = WithDestination(total_distance, input)
    /\ fuel' = MAX_RANGE
    /\ pos' = 0
    /\ total_cost' = 0
    /\ stops' = <<>>
    /\ i' = 1
    /\ pc' = "loop"
    /\ UNCHANGED <<total_distance, input, gallons, buy_reason, raised, returned>>
    /\ UNCHANGED <<procVars, fnVars>>

\* lines 29-40: drive to the station's route position
Travel ==
    /\ pc = "loop"
    /\ i < Len(stations)
    /\ LET station == stations[i]
           f == fuel - TravelDistance(station, pos)
       IN  /\ pos' = station.route_mile
           /\ IF OutOfFuel(f)
              THEN /\ fuel' = f
                   /\ raised' = "Out of fuel before reaching " \o station.name
                   /\ pc' = "raised"
              ELSE /\ fuel' = Max(0, f)
                   /\ raised' = raised
                   /\ pc' = "arrived"
    /\ UNCHANGED <<total_distance, input, stations, total_cost, stops, i,
                   gallons, buy_reason, returned>>
    /\ UNCHANGED <<procVars, fnVars>>

\* lines 43-54: the detour cannot be made, skip the station
SkipStation ==
    /\ pc = "arrived"
    /\ CannotDetour(DetourNeeded(stations[i]), fuel)
    /\ gallons' = 0
    /\ buy_reason' = ""
    /\ i' = i + 1
    /\ pc' = "loop"
    /\ UNCHANGED <<total_distance, input, stations, fuel, pos, total_cost, stops,
                   raised, returned>>
    /\ UNCHANGED <<procVars, fnVars>>

\* lines 43-95: decide the purchase
Decide ==
    /\ pc = "arrived"
    /\ ~CannotDetour(DetourNeeded(stations[i]), fuel)
    /\ LET d == Lookahead(stations, i, i + 1, fuel, pos)
       IN  /\ gallons' = d.gallons
           /\ buy_reason' = d.buy_reason
    /\ pc' = "decided"
    /\ UNCHANGED <<total_distance, input, stations, fuel, pos, total_cost, stops, i,
                   raised, returned>>
    /\ UNCHANGED <<procVars, fnVars>>

\* lines 97, 115: nothing to buy
PassBy ==
    /\ pc = "decided"
    /\ ~(gallons > 0)
    /\ i' = i + 1
    /\ pc' = "loop"
    /\ UNCHANGED <<total_distance, input, stations, fuel, pos, total_cost, stops,
                   gallons, buy_reason, raised, returned>>
    /\ UNCHANGED <<procVars, fnVars>>

\* lines 97-101: pay the detour
PayDetour ==
    /\ pc = "decided"
    /\ gallons > 0
    /\ LET detour_needed == DetourNeeded(stations[i])
       IN  IF detour_needed > 0
           THEN /\ fuel' = fuel - detour_needed
                /\ pos' = PosAfterDetour(pos, detour_needed)
           ELSE UNCHANGED <<fuel, pos>>
    /\ pc' = "paid"
    /\ UNCHANGED <<total_distance, input, stations, total_cost, stops, i,
                   gallons, buy_reason, raised, returned>>
    /\ UNCHANGED <<procVars, fnVars>>

\* lines 103-115: take the fuel, record the stop
Purchase ==
    /\ pc = "paid"
    /\ fuel' = fuel + RangeOf(gallons)
    /\ total_cost' = total_cost + CostOf(gallons, stations[i].price)
    /\ \E stop_info \in StopInfo(stations[i], gallons, buy_reason) :
          stops' = Append(stops, stop_info)
    /\ i' = i + 1
    /\ pc' = "loop"
    /\ UNCHANGED <<total_distance, input, stations, pos, gallons, buy_reason,
                   raised, returned>>
    /\ UNCHANGED <<procVars, fnVars>>

\* lines 29, 117
Return ==
    /\ pc = "loop"
    /\ ~(i < Len(stations))
    /\ \E rounded \in Round2Money(total_cost) : returned' = <<stops, rounded>>
    /\ pc' = "returned"
    /\ UNCHANGED <<total_distance, input, stations, fuel, pos, total_cost, stops, i,
                   gallons, buy_reason, raised>>
    /\ UNCHANGED <<procVars, fnVars>>

OptNext ==
    \/ Enter
    \/ Travel
    \/ SkipStation
    \/ Decide
    \/ PassBy
    \/ PayDetour
    \/ Purchase
    \/ Return


\* ------------------------------------------------------------------------
\* optimize_fuel_stops_with_detours as one function call: the loop above run
\* to its end.  A result is [raised, stops, cost]; raised is the message
\* of the RuntimeError, "" when the call returns.  The call has one result
\* for every outcome of its roundings.
\* ------------------------------------------------------------------------
RECURSIVE OptimizeFrom(_, _, _, _, _, _)
OptimizeFrom(sts, k, f, p, cost, acc) ==
    IF ~(k < Len(sts))
    THEN { [raised |-> "", stops |-> acc, cost |-> rounded] :
             rounded \in Round2Money(cost) }
    ELSE
      LET station == sts[k]
          arrive == f - TravelDistance(station, p)
          here == station.route_mile
          detour_needed == DetourNeeded(station)
      IN  IF OutOfFuel(arrive)
          THEN { [raised |-> "Out of fuel before reaching " \o station.name,
                  stops |-> <<>>, cost |-> 0] }
          ELSE IF CannotDetour(detour_needed, Max(0, arrive))
          THEN OptimizeFrom(sts, k + 1, Max(0, arrive), here, cost, acc)
          ELSE
            LET d == Lookahead(sts, k, k + 1, Max(0, arrive), here)
            IN  IF d.gallons > 0
                THEN UNION { OptimizeFrom(sts, k + 1,
                                 (IF detour_needed > 0 THEN Max(0, arrive) - detour_needed
                                  ELSE Max(0, arrive)) + RangeOf(d.gallons),
                                 IF detour_needed > 0
                                 THEN PosAfterDetour(here, detour_needed)
                                 ELSE here,
                                 cost + CostOf(d.gallons, station.price),
                                 Append(acc, stop_info)) :
                             stop_info \in StopInfo(station, d.gallons, d.buy_reason) }
                ELSE OptimizeFrom(sts, k + 1, Max(0, arrive), here, cost, acc)

Optimize(total, list) ==
    OptimizeFrom(WithDestination(total, list), 1, MAX_RANGE, 0, 0, <<>>)

\* ------------------------------------------------------------------------
\* The request pipeline: RouteProcessorService.execute, RouteCacheService,
\* FuelStationRepository (processor.py)
\* ------------------------------------------------------------------------
MaxRequests == 3

Threads == {"t1", "t2"}

\* enums.py Coordinate.__init__: data = f"{lat},{lon}"
Coordinate(c) ==
    [lat |-> c.lat, lon |-> c.lon, data |-> ToString(c.lat) \o "," \o ToString(c.lon)]

Origin == [lat |-> 40, lon |-> -100]
NearTown == [lat |-> 44, lon |-> -95]
FarTown  == [lat |-> 47, lon |-> -90]

Requests == { [start |-> Origin, finish |-> NearTown],
              [start |-> Origin, finish |-> FarTown] }

\* the route provider's answer (routing.py get_route, extract_coords), kept
\* as the length cumulative_distances gives its waypoints
ProviderRoute(start, finish) ==
    [start |-> start.data, finish |-> finish.data,
     total_distance |-> IF finish.lat = NearTown.lat THEN Miles(500) ELSE Miles(990)]

\* station catalogues the CSV may hold; a row is kept by where it lies along
\* the road out of Origin
Datasets == {"D1", "D2", "Dbad"}

DatasetRows(id) ==
    IF id = "D1"
    THEN << [name |-> "a", route_mile |-> Miles(200), price |-> 35,
             detour_miles |-> MileUnit \div 10, on_route |-> TRUE],
            [name |-> "b", route_mile |-> Miles(490), price |-> 30,
             detour_miles |-> Miles(10), on_route |-> FALSE] >>
    ELSE << [name |-> "a", route_mile |-> Miles(200), price |-> 30,
             detour_miles |-> MileUnit \div 10, on_route |-> TRUE],
            [name |-> "c", route_mile |-> Miles(600), price |-> 35,
             detour_miles |-> MileUnit \div 10, on_route |-> TRUE] >>

\* a catalogue without the "Retail Price" column
Malformed(id) == id = "Dbad"

\* planner.py project_stations_with_detours: the rows within the corridor of
\* the route, by route_mile
ProjectStations(route, id) ==
    SortByRouteMile(SelectSeq(DatasetRows(id),
                              LAMBDA r : r.route_mile <= route.total_distance))

\* FuelStationRepository.get_stations_hash
StationsHash(df) == IF df # <<>> THEN "md5:" \o df[1] ELSE "no_stations"

\* a variant of the key that leaves the station fingerprint out of the key data
GenerateKey_NoHash(start, finish, stations_hash) ==
    <<"route", <<start, finish, "1">>>>

\* RouteCacheService._generate_key: prefix and digest of the key data
GenerateKey(start, finish, stations_hash) ==
    <<"route", <<start, finish, stations_hash, "1">>>>

\* "if cached:"
\* a variant of the hit test that also wants the cached plan to have stops
Truthy_NeedsStops(cached) == cached # <<>> /\ cached[1].stops # <<>>

Truthy(cached) == cached # <<>>

Round1Miles(d) == RoundTo(d, MileUnit \div 10)

\* map_view.py generate_map_with_detours: the file it saves
MapFile(location_key) == "route_map_" \o location_key \o ".html"

LocationKey(start, finish) ==
    ToString(start.lon) \o "_" \o ToString(start.lat) \o "_"
       \o ToString(finish.lon) \o "_" \o ToString(finish.lat)

\* a variant of the handler that answers with an empty plan instead of raising
OnException_Swallow(msg) ==
    <<"returned", [distance |-> 0, stops |-> <<>>, total_fuel_cost |-> 0, map_url |-> ""]>>

\* except Exception as e: raise RoutePlanningError(...)
OnException(msg) == <<"RoutePlanningError", "Failed to plan route: " \o msg>>

IdleThread ==
    [pc |-> "idle", req |-> <<>>, stations_hash |-> "", start_location |-> <<>>,
     finish_location |-> <<>>, cached |-> <<>>, route |-> <<>>, stations |-> <<>>,
     projected |-> <<>>, stops |-> <<>>, cost |-> 0, total_distance |-> 0,
     map_url |-> "", result |-> <<>>, exc |-> "", outcome |-> <<>>, calls |-> {},
     station_repo |-> <<>>, df_read |-> <<>>]

\* self.station_repo._stations_df of the service of thread t
StationsDf(t) == objects[th[t].station_repo[1]]

KeyOf(t) == GenerateKey(th[t].start_location[1].data, th[t].finish_location[1].data,
                        th[t].stations_hash)

ProcInit ==
    /\ cache_store = << >>
    /\ disk \in Datasets \cup {"missing"}
    /\ th = [t \in Threads |-> IdleThread]
    /\ started = 0
    /\ served = {}

\* a request arrives: its view is made (views.py lines 83-84), which makes a
\* RouteProcessorService (line 131) and so calls FuelStationRepository(), and
\* then calls execute(request)
Execute(t, r) ==
    /\ th[t].pc = "idle"
    /\ started < MaxRequests
    /\ started' = started + 1
    /\ th' = [th EXCEPT ![t] = [IdleThread EXCEPT !.pc = "new", !.req = <<r>>]]
    /\ UNCHANGED <<cache_store, disk, served, optVars, fnVars>>

\* __new__ line 39: if cls._instance is None
NewCheck(t) ==
    /\ th[t].pc = "new"
    /\ th' = [th EXCEPT ![t].pc = IF instance = <<>> THEN "new_create" ELSE "new_return"]
    /\ UNCHANGED <<cache_store, disk, started, served, optVars, fnVars>>

\* __new__ line 40: cls._instance = super().__new__(cls)
NewCreate(t) ==
    /\ th[t].pc = "new_create"
    /\ objects' = Append(objects, <<>>)
    /\ instance' = <<Len(objects) + 1>>
    /\ th' = [th EXCEPT ![t].pc = "new_return"]
    /\ UNCHANGED <<cache_store, disk, started, served, optVars, keys, repoRest, planVars>>

\* __new__ line 41: return cls._instance, kept as self.station_repo (line 131)
NewReturn(t) ==
    /\ th[t].pc = "new_return"
    /\ th' = [th EXCEPT ![t].station_repo = instance, ![t].pc = "start"]
    /\ UNCHANGED <<cache_store, disk, started, served, optVars, fnVars>>

\* lines 137-144
GetStationsHash(t) ==
    /\ th[t].pc = "start"
    /\ th' = [th EXCEPT ![t].stations_hash = StationsHash(StationsDf(t)),
                        ![t].start_location = <<Coordinate(th[t].req[1].start)>>,
                        ![t].finish_location = <<Coordinate(th[t].req[1].finish)>>,
                        ![t].pc = "lookup"]
    /\ UNCHANGED <<cache_store, disk, started, served, optVars, fnVars>>

\* lines 145-149, RouteCacheService.get lines 96-98
CacheGet(t) ==
    /\ th[t].pc = "lookup"
    /\ th' = [th EXCEPT ![t].cached = IF KeyOf(t) \in DOMAIN cache_store
                                       THEN <<cache_store[KeyOf(t)]>> ELSE <<>>,
                        ![t].pc = "looked"]
    /\ UNCHANGED <<cache_store, disk, started, served, optVars, fnVars>>

\* a variant of the read in which the storage error leaves RouteCacheService.get
CacheGetFails_Escalates(t) ==
    /\ th[t].pc = "lookup"
    /\ th' = [th EXCEPT ![t].exc = "cache backend unavailable",
                        ![t].calls = @ \cup {"cache_get_failed"},
                        ![t].pc = "except"]
    /\ UNCHANGED <<cache_store, disk, started, served, optVars, fnVars>>

\* RouteCacheService.get lines 99-101: the backend fails, None is returned
CacheGetFails(t) ==
    /\ th[t].pc = "lookup"
    /\ th' = [th EXCEPT ![t].cached = <<>>,
                        ![t].calls = @ \cup {"cache_get_failed"},
                        ![t].pc = "looked"]
    /\ UNCHANGED <<cache_store, disk, started, served, optVars, fnVars>>

\* lines 151-153
ReturnCached(t) ==
    /\ th[t].pc = "looked"
    /\ Truthy(th[t].cached)
    /\ th' = [th EXCEPT ![t].outcome = <<"returned", th[t].cached[1]>>,
                        ![t].pc = "done"]
    /\ UNCHANGED <<cache_store, disk, started, served, optVars, fnVars>>

\* lines 155-156
GetRoute(t) ==
    /\ th[t].pc = "looked"
    /\ ~Truthy(th[t].cached)
    /\ th' = [th EXCEPT ![t].route = <<ProviderRoute(th[t].start_location[1],
                                                     th[t].finish_location[1])>>,
                        ![t].calls = @ \cup {"get_route"},
                        ![t].pc = "routed"]
    /\ UNCHANGED <<cache_store, disk, started, served, optVars, fnVars>>

\* line 155: the provider fails (requests raises)
GetRouteFails(t) ==
    /\ th[t].pc = "looked"
    /\ ~Truthy(th[t].cached)
    /\ th' = [th EXCEPT ![t].exc = "API Error",
                        ![t].calls = @ \cup {"get_route"},
                        ![t].pc = "except"]
    /\ UNCHANGED <<cache_store, disk, started, served, optVars, fnVars>>

\* line 157, get_stations line 44: "if self._stations_df is None"
GetStations(t) ==
    /\ th[t].pc = "routed"
    /\ th' = [th EXCEPT ![t].calls = @ \cup {"get_stations"},
                        ![t].pc = IF StationsDf(t) = <<>> THEN "loading" ELSE "copying"]
    /\ UNCHANGED <<cache_store, disk, started, served, optVars, fnVars>>

\* get_stations lines 45-47, right-hand side: pd.read_csv(file_path)
ReadCsv(t) ==
    /\ th[t].pc = "loading"
    /\ disk # "missing"
    /\ th' = [th EXCEPT ![t].df_read = <<disk>>, ![t].pc = "storing"]
    /\ UNCHANGED <<cache_store, disk, started, served, optVars, fnVars>>

\* get_stations line 47, the store: self._stations_df = ...
StoreStations(t) ==
    /\ th[t].pc = "storing"
    /\ objects' = [objects EXCEPT ![th[t].station_repo[1]] = th[t].df_read]
    /\ th' = [th EXCEPT ![t].df_read = <<>>, ![t].pc = "copying"]
    /\ UNCHANGED <<cache_store, disk, started, served, optVars, instance, keys,
                   repoRest, planVars>>

\* get_stations lines 48-53: the file cannot be read, the error is re-raised
ReadCsvFails(t) ==
    /\ th[t].pc = "loading"
    /\ disk = "missing"
    /\ th' = [th EXCEPT ![t].exc = "Fuel stations CSV not found", ![t].pc = "except"]
    /\ UNCHANGED <<cache_store, disk, started, served, optVars, fnVars>>

\* get_stations line 54: return self._stations_df.copy()
CopyStations(t) ==
    /\ th[t].pc = "copying"
    /\ th' = [th EXCEPT ![t].stations = StationsDf(t), ![t].pc = "loaded"]
    /\ UNCHANGED <<cache_store, disk, started, served, optVars, fnVars>>

\* line 158
Project(t) ==
    /\ th[t].pc = "loaded"
    /\ ~Malformed(th[t].stations[1])
    /\ th' = [th EXCEPT ![t].projected = ProjectStations(th[t].route[1], th[t].stations[1]),
                        ![t].calls = @ \cup {"project"},
                        ![t].pc = "projected"]
    /\ UNCHANGED <<cache_store, disk, started, served, optVars, fnVars>>

\* line 158: the projection raises (KeyError 'Retail Price')
ProjectFails(t) ==
    /\ th[t].pc = "loaded"
    /\ Malformed(th[t].stations[1])
    /\ th' = [th EXCEPT ![t].exc = "'Retail Price'",
                        ![t].calls = @ \cup {"project"},
                        ![t].pc = "except"]
    /\ UNCHANGED <<cache_store, disk, started, served, optVars, fnVars>>

\* lines 160-164
RunOptimizer(t) ==
    /\ th[t].pc = "projected"
    /\ LET total == th[t].route[1].total_distance
       IN  \E r \in Optimize(total, th[t].projected) :
             th' = [th EXCEPT ![t].total_distance = total,
                              ![t].stops = r.stops,
                              ![t].cost = r.cost,
                              ![t].exc = r.raised,
                              ![t].calls = @ \cup {"optimize"},
                              ![t].pc = IF r.raised = "" THEN "optimized" ELSE "except"]
    /\ UNCHANGED <<cache_store, disk, started, served, optVars, fnVars>>

\* lines 166-168
RenderMap(t) ==
    /\ th[t].pc = "optimized"
    /\ th' = [th EXCEPT ![t].map_url = MapFile(LocationKey(th[t].start_location[1],
                                                           th[t].finish_location[1])),
                        ![t].calls = @ \cup {"render_map"},
                        ![t].pc = "rendered"]
    /\ UNCHANGED <<cache_store, disk, started, served, optVars, fnVars>>

\* line 168: the renderer fails (the map file cannot be saved)
RenderMapFails(t) ==
    /\ th[t].pc = "optimized"
    /\ th' = [th EXCEPT ![t].exc = "cannot save map",
                        ![t].calls = @ \cup {"render_map"},
                        ![t].pc = "except"]
    /\ UNCHANGED <<cache_store, disk, started, served, optVars, fnVars>>

\* the plan of lines 170-175, one for every outcome of its two roundings
ResultOf(t) ==
    { [distance |-> rounded_distance,
       stops |-> th[t].stops,
       total_fuel_cost |-> rounded_cost,
       map_url |-> th[t].map_url] :
        rounded_distance \in Round1Miles(th[t].total_distance),
        rounded_cost \in Round2Money(th[t].cost) }

\* a variant of the write that keeps an entry already stored under the key
CacheSet_KeepsFirst(t) ==
    /\ th[t].pc = "rendered"
    /\ \E result \in ResultOf(t) :
          /\ cache_store' = [k \in DOMAIN cache_store \cup {KeyOf(t)} |->
                                IF k \in DOMAIN cache_store THEN cache_store[k] ELSE result]
          /\ th' = [th EXCEPT ![t].result = <<result>>,
                              ![t].calls = @ \cup {"cache_set"},
                              ![t].pc = "stored"]
    /\ UNCHANGED <<disk, started, served, optVars, fnVars>>

\* lines 170-182, RouteCacheService.set lines 112-115
CacheSet(t) ==
    /\ th[t].pc = "rendered"
    /\ \E result \in ResultOf(t) :
          /\ cache_store' = [k \in DOMAIN cache_store \cup {KeyOf(t)} |->
                                IF k = KeyOf(t) THEN result ELSE cache_store[k]]
          /\ th' = [th EXCEPT ![t].result = <<result>>,
                              ![t].calls = @ \cup {"cache_set"},
                              ![t].pc = "stored"]
    /\ UNCHANGED <<disk, started, served, optVars, fnVars>>

\* RouteCacheService.set lines 116-118: the backend fails, the write is dropped
CacheSetFails(t) ==
    /\ th[t].pc = "rendered"
    /\ \E result \in ResultOf(t) :
          th' = [th EXCEPT ![t].result = <<result>>,
                           ![t].calls = @ \cup {"cache_set_failed"},
                           ![t].pc = "stored"]
    /\ UNCHANGED <<cache_store, disk, started, served, optVars, fnVars>>

\* line 184
ReturnResult(t) ==
    /\ th[t].pc = "stored"
    /\ th' = [th EXCEPT ![t].outcome = <<"returned", th[t].result[1]>>,
                        ![t].pc = "done"]
    /\ UNCHANGED <<cache_store, disk, started, served, optVars, fnVars>>

\* lines 185-187
HandleException(t) ==
    /\ th[t].pc = "except"
    /\ th' = [th EXCEPT ![t].outcome = OnException(th[t].exc), ![t].pc = "failed"]
    /\ UNCHANGED <<cache_store, disk, started, served, optVars, fnVars>>

\* execute returned a plan and no call of the cache backend failed
CompletedWithCache(rec) ==
    /\ rec.pc = "done"
    /\ rec.calls \cap {"cache_get_failed", "cache_set_failed"} = {}

\* the view has answered: the thread is free for the next request
Finish(t) ==
    /\ th[t].pc \in {"done", "failed"}
    /\ th' = [th EXCEPT ![t] = IdleThread]
    /\ served' = IF CompletedWithCache(th[t]) THEN served \cup {th[t].req[1]}
                 ELSE served \ {th[t].req[1]}
    /\ UNCHANGED <<cache_store, disk, started, optVars, fnVars>>

\* the station CSV is replaced, or removed
ChangeDisk(d) ==
    /\ d # disk
    /\ disk' = d
    /\ served' = {}
    /\ UNCHANGED <<cache_store, th, started, optVars, fnVars>>

\* the server process restarts: the repository singleton and the requests in
\* flight are gone, the cache backend stays
Restart ==
    /\ objects # <<>>
    /\ instance' = <<>>
    /\ objects' = <<>>
    /\ th' = [t \in Threads |-> IdleThread]
    /\ served' = {}
    /\ UNCHANGED <<cache_store, disk, started, optVars, keys, repoRest, planVars>>

\* an entry reaches CACHE_TIMEOUT and is dropped by the backend
Expire(k) ==
    /\ k \in DOMAIN cache_store
    /\ cache_store' = [x \in DOMAIN cache_store \ {k} |-> cache_store[x]]
    /\ served' = {}
    /\ UNCHANGED <<disk, th, started, optVars, fnVars>>

\* the pipeline at rest, while one optimizer call is followed
ProcIdle ==
    /\ cache_store = << >>
    /\ disk = "D1"
    /\ th = [t \in Threads |-> IdleThread]
    /\ started = 0
    /\ served = {}

\* no function call is followed on its own
\* a thread outside the repository
IdleRepoThread ==
    [pc |-> "idle", self |-> <<>>, df_read |-> <<>>, outcome |-> <<>>, failures |-> 0]

\* processor.py lines 35-36: no instance, nothing loaded
RepoIdle ==
    /\ instance = <<>>
    /\ objects = <<>>
    /\ rt = [t \in Threads |-> IdleRepoThread]
    /\ loads = 0
    /\ hashes = {}
    /\ repo_calls = 0

\* no projection is followed
PlanIdle ==
    /\ route_coords = <<>> /\ stations_in = <<>> /\ cumd = <<>> /\ frame = <<>>
    /\ all_results = <<>> /\ projected = <<>> /\ ppc = "idle"

FnIdle ==
    /\ keys = {}
    /\ RepoIdle
    /\ PlanIdle

\* one call of optimize_fuel_stops_with_detours, on any input of the domain
Init == OptInit /\ ProcIdle /\ FnIdle

Spec == Init /\ [][OptNext]_vars

\* no optimizer call is followed
OptIdle ==
    /\ total_distance = 0 /\ input = <<>> /\ stations = <<>>
    /\ fuel = 0 /\ pos = 0 /\ total_cost = 0 /\ stops = <<>> /\ i = 1
    /\ gallons = 0 /\ buy_reason = "" /\ pc = "call" /\ raised = ""
    /\ returned = <<>>

\* one worker serving requests one after the other, in a changing environment
Worker == "t1"

ExecNext ==
    \/ \E r \in Requests : Execute(Worker, r)
    \/ NewCheck(Worker)
    \/ NewCreate(Worker)
    \/ NewReturn(Worker)
    \/ GetStationsHash(Worker)
    \/ CacheGet(Worker)
    \/ CacheGetFails(Worker)
    \/ ReturnCached(Worker)
    \/ GetRoute(Worker)
    \/ GetRouteFails(Worker)
    \/ GetStations(Worker)
    \/ ReadCsv(Worker)
    \/ StoreStations(Worker)
    \/ ReadCsvFails(Worker)
    \/ CopyStations(Worker)
    \/ Project(Worker)
    \/ ProjectFails(Worker)
    \/ RunOptimizer(Worker)
    \/ RenderMap(Worker)
    \/ RenderMapFails(Worker)
    \/ CacheSet(Worker)
    \/ CacheSetFails(Worker)
    \/ ReturnResult(Worker)
    \/ HandleException(Worker)
    \/ Finish(Worker)
    \/ \E d \in Datasets \cup {"missing"} : ChangeDisk(d)
    \/ Restart
    \/ \E k \in DOMAIN cache_store : Expire(k)

ExecInit == OptIdle /\ ProcInit /\ FnIdle

SpecExec == ExecInit /\ [][ExecNext]_vars

\* ------------------------------------------------------------------------
\* Several requests in one process at a time: every thread runs execute, the
\* cache store and the repository are shared, the station CSV may be replaced
\* ------------------------------------------------------------------------
\* the requests served while the threads are followed together: how many,
\* and which (the threads race for one route)
MaxConcRequests == 2

ConcRequests == { [start |-> Origin, finish |-> NearTown] }

\* the versions of the station CSV, in the order they replace each other: two
\* catalogues, one without the price column, and the file removed
ConcVersions == <<"D1", "D2", "Dbad", "missing">>

ConcNext ==
    \/ \E t \in Threads, r \in ConcRequests :
          started < MaxConcRequests /\ Execute(t, r)
    \/ \E t \in Threads : NewCheck(t)
    \/ \E t \in Threads : NewCreate(t)
    \/ \E t \in Threads : NewReturn(t)
    \/ \E t \in Threads : GetStationsHash(t)
    \/ \E t \in Threads : CacheGet(t)
    \/ \E t \in Threads : CacheGetFails(t)
    \/ \E t \in Threads : ReturnCached(t)
    \/ \E t \in Threads : GetRoute(t)
    \/ \E t \in Threads : GetRouteFails(t)
    \/ \E t \in Threads : GetStations(t)
    \/ \E t \in Threads : ReadCsv(t)
    \/ \E t \in Threads : StoreStations(t)
    \/ \E t \in Threads : ReadCsvFails(t)
    \/ \E t \in Threads : CopyStations(t)
    \/ \E t \in Threads : Project(t)
    \/ \E t \in Threads : ProjectFails(t)
    \/ \E t \in Threads : RunOptimizer(t)
    \/ \E t \in Threads : RenderMap(t)
    \/ \E t \in Threads : RenderMapFails(t)
    \/ \E t \in Threads : CacheSet(t)
    \/ \E t \in Threads : CacheSetFails(t)
    \/ \E t \in Threads : ReturnResult(t)
    \/ \E t \in Threads : HandleException(t)
    \/ \E t \in Threads : Finish(t)
    \/ \E a, b \in 1..Len(ConcVersions) :
          a < b /\ disk = ConcVersions[a] /\ ChangeDisk(ConcVersions[b])

ConcInit == OptIdle /\ ProcIdle /\ FnIdle

SpecConc == ConcInit /\ [][ConcNext]_vars

\* ------------------------------------------------------------------------
\* FuelStationRepository followed on its own: constructions, get_stations and
\* get_stations_hash calls of several threads, statement by statement
\* ------------------------------------------------------------------------
MaxRepoCalls == 4

RepoOthers == <<optVars, cache_store, th, started, served, keys, planVars>>

\* a thread calls FuelStationRepository()
RepoConstruct(t) ==
    /\ rt[t].pc = "idle"
    /\ repo_calls < MaxRepoCalls
    /\ repo_calls' = repo_calls + 1
    /\ rt' = [rt EXCEPT ![t].pc = "new", ![t].outcome = <<>>]
    /\ UNCHANGED <<instance, objects, loads, hashes, disk, RepoOthers>>

\* __new__ line 39: if cls._instance is None
RepoNewCheck(t) ==
    /\ rt[t].pc = "new"
    /\ rt' = [rt EXCEPT ![t].pc = IF instance = <<>> THEN "new_create" ELSE "new_return"]
    /\ UNCHANGED <<instance, objects, loads, hashes, repo_calls, disk, RepoOthers>>

\* __new__ line 40: cls._instance = super().__new__(cls)
RepoNewCreate(t) ==
    /\ rt[t].pc = "new_create"
    /\ objects' = Append(objects, <<>>)
    /\ instance' = <<Len(objects) + 1>>
    /\ rt' = [rt EXCEPT ![t].pc = "new_return"]
    /\ UNCHANGED <<loads, hashes, repo_calls, disk, RepoOthers>>

\* __new__ line 41: return cls._instance
RepoNewReturn(t) ==
    /\ rt[t].pc = "new_return"
    /\ rt' = [rt EXCEPT ![t].self = instance, ![t].pc = "idle"]
    /\ UNCHANGED <<instance, objects, loads, hashes, repo_calls, disk, RepoOthers>>

\* a thread calls get_stations() on the repository it holds
RepoGetStations(t) ==
    /\ rt[t].pc = "idle"
    /\ rt[t].self # <<>>
    /\ repo_calls < MaxRepoCalls
    /\ repo_calls' = repo_calls + 1
    /\ rt' = [rt EXCEPT ![t].pc = "check", ![t].outcome = <<>>]
    /\ UNCHANGED <<instance, objects, loads, hashes, disk, RepoOthers>>

\* get_stations line 44: if self._stations_df is None
RepoCheckLoaded(t) ==
    /\ rt[t].pc = "check"
    /\ rt' = [rt EXCEPT ![t].pc = IF objects[rt[t].self[1]] = <<>> THEN "read" ELSE "copy"]
    /\ UNCHANGED <<instance, objects, loads, hashes, repo_calls, disk, RepoOthers>>

\* get_stations line 47, right-hand side: pd.read_csv(file_path)
RepoReadCsv(t) ==
    /\ rt[t].pc = "read"
    /\ disk \in Datasets
    /\ loads' = loads + 1
    /\ rt' = [rt EXCEPT ![t].df_read = <<disk>>, ![t].pc = "assign"]
    /\ UNCHANGED <<instance, objects, hashes, repo_calls, disk, RepoOthers>>

\* a variant of the failure that leaves the failed load in _stations_df
RepoReadCsvFails_Remembered(t) ==
    /\ rt[t].pc = "read"
    /\ disk \notin Datasets
    /\ objects' = [objects EXCEPT ![rt[t].self[1]] = <<disk>>]
    /\ rt' = [rt EXCEPT ![t].outcome = <<"raised", "FileNotFoundError">>,
                        ![t].failures = @ + 1,
                        ![t].pc = "idle"]
    /\ UNCHANGED <<instance, loads, hashes, repo_calls, disk, RepoOthers>>

\* get_stations lines 48-50: the file is missing, the error is logged and raised
RepoReadCsvFails(t) ==
    /\ rt[t].pc = "read"
    /\ disk \notin Datasets
    /\ rt' = [rt EXCEPT ![t].outcome = <<"raised", "FileNotFoundError">>,
                        ![t].failures = @ + 1,
                        ![t].pc = "idle"]
    /\ UNCHANGED <<instance, objects, loads, hashes, repo_calls, disk, RepoOthers>>

\* get_stations line 47, the store: self._stations_df = ...
RepoAssign(t) ==
    /\ rt[t].pc = "assign"
    /\ objects' = [objects EXCEPT ![rt[t].self[1]] = rt[t].df_read]
    /\ rt' = [rt EXCEPT ![t].df_read = <<>>, ![t].pc = "copy"]
    /\ UNCHANGED <<instance, loads, hashes, repo_calls, disk, RepoOthers>>

\* get_stations line 54: return self._stations_df.copy()
RepoCopy(t) ==
    /\ rt[t].pc = "copy"
    /\ rt' = [rt EXCEPT ![t].outcome = <<"returned", objects[rt[t].self[1]][1]>>,
                        ![t].pc = "idle"]
    /\ UNCHANGED <<instance, objects, loads, hashes, repo_calls, disk, RepoOthers>>

\* get_stations_hash lines 56-62, on the repository the thread holds; the
\* dataset is the snapshot, or the catalogue a load would read
RepoGetStationsHash(t) ==
    /\ rt[t].pc = "idle"
    /\ rt[t].self # <<>>
    /\ repo_calls < MaxRepoCalls
    /\ repo_calls' = repo_calls + 1
    /\ LET df == objects[rt[t].self[1]]
       IN  hashes' = hashes \cup {[dataset |-> IF df # <<>> THEN df[1] ELSE disk,
                                   loaded |-> df # <<>>,
                                   hash |-> StationsHash(df)]}
    /\ UNCHANGED <<instance, objects, rt, loads, disk, RepoOthers>>

\* the station CSV is replaced, or removed
RepoChangeDisk(d) ==
    /\ d # disk
    /\ disk' = d
    /\ UNCHANGED <<repoVars, RepoOthers>>

RepoNext ==
    \/ \E t \in Threads : RepoConstruct(t)
    \/ \E t \in Threads : RepoNewCheck(t)
    \/ \E t \in Threads : RepoNewCreate(t)
    \/ \E t \in Threads : RepoNewReturn(t)
    \/ \E t \in Threads : RepoGetStations(t)
    \/ \E t \in Threads : RepoCheckLoaded(t)
    \/ \E t \in Threads : RepoReadCsv(t)
    \/ \E t \in Threads : RepoReadCsvFails(t)
    \/ \E t \in Threads : RepoAssign(t)
    \/ \E t \in Threads : RepoCopy(t)
    \/ \E t \in Threads : RepoGetStationsHash(t)
    \/ \E d \in Datasets \cup {"missing"} : RepoChangeDisk(d)

RepoInit == OptIdle /\ ProcInit /\ FnIdle

SpecRepo == RepoInit /\ [][RepoNext]_vars

\* ------------------------------------------------------------------------
\* The distance profile and the station projector: utils.py
\* cumulative_distances, planner.py project_stations_with_detours.
\* Latitudes and longitudes are in thousandths of a degree, distances in
\* MileUnit. The great-circle distance is followed where it has a closed
\* form: between two points of one meridian it is the radius times the
\* difference of the latitudes in radians.
\* ------------------------------------------------------------------------
MaxWaypoints == 3
MaxRows == 2

\* utils.py line 5, planner.py line 6: 3958.8 miles, in tenths of a mile
EARTH_RADIUS_MILES == 39588

\* planner.py line 7
MAX_DETOUR_MILES == Miles(10)

\* the on-route threshold of planner.py line 120: 0.1 miles
OnRouteThreshold == MileUnit \div 10

\* the default corridor_miles of project_stations_with_detours
CorridorMiles == 50

\* math.radians of one degree: 17453 millionths and 293 billionths
MicroRadiansPerDegree == 17453
NanoRadiansRest == 293

\* the miles of one degree of arc, in thousandths of MileUnit
ArcPerDegree ==
    (EARTH_RADIUS_MILES * MicroRadiansPerDegree) \div 1000
       + (EARTH_RADIUS_MILES * NanoRadiansRest) \div 1000000

AbsDiff(a, b) == IF a >= b THEN a - b ELSE b - a

\* the arc, in MileUnit, of d thousandths of a degree on the sphere
ArcLength(d) == (d * ArcPerDegree) \div 1000

\* utils.py haversine_miles lines 8-17, and the distance matrix of planner.py
\* lines 91-100, for two points of one meridian
HaversineMiles(lat1, lon1, lat2, lon2) ==
    CASE lon1 = lon2 -> ArcLength(AbsDiff(lat2, lat1))

\* utils.py cumulative_distances lines 20-24: dists = [0.0], then one entry
\* per further waypoint
RECURSIVE CumulativeFrom(_, _, _)
CumulativeFrom(coords, k, dists) ==
    IF k > Len(coords) THEN dists
    ELSE CumulativeFrom(coords, k + 1,
            Append(dists, dists[Len(dists)]
                          + HaversineMiles(coords[k - 1][1], coords[k - 1][2],
                                           coords[k][1], coords[k][2])))

CumulativeDistances(coords) == CumulativeFrom(coords, 2, <<0>>)

\* ---- the inputs followed
RouteLon == -100000

WaypointLats == {40000, 40100}

\* every waypoint sequence of up to MaxWaypoints points, in any order
Routes ==
    UNION { [1..n -> {<<lat, RouteLon>> : lat \in WaypointLats}] : n \in 0..MaxWaypoints }

Num(v) == <<"num", v>>
NotANumber == <<"str", "invalid">>

\* the kinds of CSV rows: on a waypoint, next to the route, off the route,
\* between two waypoints (nearer to one, and midway), beyond the maximal
\* detour, outside the corridor (to the north, to the east), and with an
\* unreadable latitude; the stations that must not come out are the cheapest
RowKinds ==
    { [Lat |-> Num(40000), Lon |-> Num(RouteLon), price |-> 35],
      [Lat |-> Num(40001), Lon |-> Num(RouteLon), price |-> 30],
      [Lat |-> Num(40002), Lon |-> Num(RouteLon), price |-> 30],
      [Lat |-> Num(40040), Lon |-> Num(RouteLon), price |-> 35],
      [Lat |-> Num(40050), Lon |-> Num(RouteLon), price |-> 35],
      [Lat |-> Num(40180), Lon |-> Num(RouteLon), price |-> 0],
      [Lat |-> Num(41500), Lon |-> Num(RouteLon), price |-> 0],
      [Lat |-> Num(40000), Lon |-> Num(-95000), price |-> 0],
      [Lat |-> NotANumber, Lon |-> Num(RouteLon), price |-> 30] }

\* a DataFrame of such rows under the default index 0, 1, ...
DataFrames ==
    UNION { { [k \in 1..n |-> [label |-> k - 1, Lat |-> f[k].Lat, Lon |-> f[k].Lon,
                               price |-> f[k].price]] : f \in [1..n -> RowKinds] }
            : n \in 0..MaxRows }

\* ---- project_stations_with_detours, statement by statement

\* planner.py line 70: the miles taken for one degree
MilesPerDegree == 69

PlanOthers == <<optVars, procVars, keys, repoVars>>

\* lines 59-60: pd.to_numeric(..., errors="coerce"), <<>> standing for NaN
ToNumeric(cell) == IF cell[1] = "num" THEN <<cell[2]>> ELSE <<>>

\* lines 56-63: the rows whose Lat and Lon are both numbers
Coerced(rows) ==
    LET kept == SelectSeq(rows, LAMBDA r : ToNumeric(r.Lat) # <<>> /\ ToNumeric(r.Lon) # <<>>)
    IN  [k \in 1..Len(kept) |-> [kept[k] EXCEPT !.Lat = ToNumeric(@)[1],
                                                !.Lon = ToNumeric(@)[1]]]

MinLat(route) == CHOOSE v \in {route[k][1] : k \in 1..Len(route)} :
                    \A k \in 1..Len(route) : v <= route[k][1]
MaxLat(route) == CHOOSE v \in {route[k][1] : k \in 1..Len(route)} :
                    \A k \in 1..Len(route) : v >= route[k][1]
MinLon(route) == CHOOSE v \in {route[k][2] : k \in 1..Len(route)} :
                    \A k \in 1..Len(route) : v <= route[k][2]
MaxLon(route) == CHOOSE v \in {route[k][2] : k \in 1..Len(route)} :
                    \A k \in 1..Len(route) : v >= route[k][2]

\* lines 68-75: inside the bounding box of the route widened by
\* corridor_miles / 69 degrees (both sides multiplied by 69)
InCorridor(route, r) ==
    /\ r.Lat * MilesPerDegree >= MinLat(route) * MilesPerDegree - CorridorMiles * 1000
    /\ r.Lat * MilesPerDegree <= MaxLat(route) * MilesPerDegree + CorridorMiles * 1000
    /\ r.Lon * MilesPerDegree >= MinLon(route) * MilesPerDegree - CorridorMiles * 1000
    /\ r.Lon * MilesPerDegree <= MaxLon(route) * MilesPerDegree + CorridorMiles * 1000

\* lines 91-100: the row of the distance matrix of one station
DistanceRow(route, r) ==
    [k \in 1..Len(route) |-> HaversineMiles(r.Lat, r.Lon, route[k][1], route[k][2])]

\* np.argmin, line 102, as the set of its outcomes: the first index of the
\* smallest entry of the row of floats.  Waypoints at one place give equal
\* floats, of which argmin takes the first.  Waypoints at different places
\* and at the same exact distance (one on either side of the station) give
\* floats that differ by the rounding of lines 91-100, and either can be the
\* smaller: for waypoints at 40.1 and 40.0 and a station at 40.05 the row is
\* [3.4547047213978708, 3.4547047213973796] and argmin takes the second.
ArgMin(route, dists) ==
    { idx \in 1..Len(dists) :
        /\ \A j \in 1..Len(dists) : dists[idx] <= dists[j]
        /\ \A j \in 1..(idx - 1) : dists[j] = dists[idx] => route[j] # route[idx] }

\* a variant of the detour that counts the way to the station only
DetourMiles_OneWay(min_distance) == min_distance

\* line 116: 2 * min_distances[j]
DetourMiles(min_distance) == 2 * min_distance

\* lines 105-121: the record built for one row, one for every outcome of
\* argmin
ResultRecord(route, profile, r) ==
    LET dists == DistanceRow(route, r)
    IN  { [route_mile |-> profile[idx],
           price |-> r.price,
           name |-> r.label,
           Lat |-> r.Lat,
           Lon |-> r.Lon,
           detour_miles |-> DetourMiles(dists[idx]),
           distance_to_route |-> dists[idx],
           on_route |-> dists[idx] < OnRouteThreshold] :
          idx \in ArgMin(route, dists) }

\* a variant of the filter that compares the one-way distance
WithinMaxDetour_OneWay(rec) == rec.distance_to_route <= MAX_DETOUR_MILES

\* line 126
WithinMaxDetour(rec) == rec.detour_miles <= MAX_DETOUR_MILES

PlanInit ==
    /\ OptIdle /\ ProcIdle /\ keys = {} /\ RepoIdle
    /\ route_coords \in Routes
    /\ stations_in \in DataFrames
    /\ cumd = <<>> /\ frame = <<>> /\ all_results = <<>> /\ projected = <<>>
    /\ ppc = "call"

\* lines 53-54: cumd = cumulative_distances(route_coords)
BuildProfile ==
    /\ ppc = "call"
    /\ cumd' = CumulativeDistances(route_coords)
    /\ ppc' = "profiled"
    /\ UNCHANGED <<route_coords, stations_in, frame, all_results, projected, PlanOthers>>

\* lines 56-63
CoerceAndDrop ==
    /\ ppc = "profiled"
    /\ frame' = Coerced(stations_in)
    /\ ppc' = "coerced"
    /\ UNCHANGED <<route_coords, stations_in, cumd, all_results, projected, PlanOthers>>

\* lines 65-66
ReturnNoStations ==
    /\ ppc = "coerced"
    /\ frame = <<>>
    /\ projected' = <<"returned", <<>>>>
    /\ ppc' = "done"
    /\ UNCHANGED <<route_coords, stations_in, cumd, frame, all_results, PlanOthers>>

\* lines 68-75
CorridorFilter ==
    /\ ppc = "coerced"
    /\ frame # <<>>
    /\ route_coords # <<>>
    /\ frame' = SelectSeq(frame, LAMBDA r : InCorridor(route_coords, r))
    /\ ppc' = "corridor"
    /\ UNCHANGED <<route_coords, stations_in, cumd, all_results, projected, PlanOthers>>

\* line 68 on a route without waypoints: route_array[:, 0] raises IndexError
CorridorRaises ==
    /\ ppc = "coerced"
    /\ frame # <<>>
    /\ route_coords = <<>>
    /\ projected' = <<"raised", "IndexError">>
    /\ ppc' = "done"
    /\ UNCHANGED <<route_coords, stations_in, cumd, frame, all_results, PlanOthers>>

\* lines 77-78
ReturnNoneInCorridor ==
    /\ ppc = "corridor"
    /\ frame = <<>>
    /\ projected' = <<"returned", <<>>>>
    /\ ppc' = "done"
    /\ UNCHANGED <<route_coords, stations_in, cumd, frame, all_results, PlanOthers>>

\* lines 80-123: the batches, one record per row
MeasureDetours ==
    /\ ppc = "corridor"
    /\ frame # <<>>
    /\ \E results \in [1..Len(frame) ->
                         UNION { ResultRecord(route_coords, cumd, frame[k]) :
                                   k \in 1..Len(frame) }] :
          /\ \A k \in 1..Len(frame) :
                results[k] \in ResultRecord(route_coords, cumd, frame[k])
          /\ all_results' = results
    /\ ppc' = "measured"
    /\ UNCHANGED <<route_coords, stations_in, cumd, frame, projected, PlanOthers>>

\* lines 125-126
DetourFilter ==
    /\ ppc = "measured"
    /\ all_results' = SelectSeq(all_results, WithinMaxDetour)
    /\ ppc' = "kept"
    /\ UNCHANGED <<route_coords, stations_in, cumd, frame, projected, PlanOthers>>

\* lines 128-129
ReturnNoneWithinDetour ==
    /\ ppc = "kept"
    /\ all_results = <<>>
    /\ projected' = <<"returned", <<>>>>
    /\ ppc' = "done"
    /\ UNCHANGED <<route_coords, stations_in, cumd, frame, all_results, PlanOthers>>

\* lines 131-133: sort_values("route_mile"), to_dict("records"); on frames
\* this small the sort keeps rows of equal route_mile in their order
SortAndReturn ==
    /\ ppc = "kept"
    /\ all_results # <<>>
    /\ projected' = <<"returned", SortByRouteMile(all_results)>>
    /\ ppc' = "done"
    /\ UNCHANGED <<route_coords, stations_in, cumd, frame, all_results, PlanOthers>>

PlanNext ==
    \/ BuildProfile
    \/ CoerceAndDrop
    \/ ReturnNoStations
    \/ CorridorFilter
    \/ CorridorRaises
    \/ ReturnNoneInCorridor
    \/ MeasureDetours
    \/ DetourFilter
    \/ ReturnNoneWithinDetour
    \/ SortAndReturn

SpecPlan == PlanInit /\ [][PlanNext]_vars

\* ------------------------------------------------------------------------
\* RouteCacheService._generate_key followed on its own
\* ------------------------------------------------------------------------
MaxKeys == 3

\* the endpoints as execute passes them (Coordinate.data), in both roles
KeyEndpoints == {Coordinate(Origin).data, Coordinate(NearTown).data}

\* the fingerprints get_stations_hash can give
KeyHashes == {StationsHash(<<>>), StationsHash(<<"D1">>), StationsHash(<<"D2">>)}

\* one call _generate_key(start, finish, stations_hash)
GenerateKeyCall(start, finish, stations_hash) ==
    /\ Cardinality(keys) < MaxKeys
    /\ keys' = keys \cup {[start |-> start, finish |-> finish,
                            stations_hash |-> stations_hash,
                            key |-> GenerateKey(start, finish, stations_hash)]}
    /\ UNCHANGED <<optVars, procVars, repoVars, planVars>>

KeyNext ==
    \E start \in KeyEndpoints, finish \in KeyEndpoints, stations_hash \in KeyHashes :
        GenerateKeyCall(start, finish, stations_hash)

KeyInit == OptIdle /\ ProcIdle /\ FnIdle

SpecKey == KeyInit /\ [][KeyNext]_vars


\* ------------------------------------------------------------------------
\* Reference notions the optimizer's claims are measured against
\* ------------------------------------------------------------------------

\* range lost to the 4-decimal rounding of one recorded purchase
GallonRoundingSlack == RangeOf(GalUnit \div 10^4)

\* Replay of a returned stop list with detours as extra distance: driving
\* between route positions costs their route-mile difference, a stop costs
\* its recorded detour_miles and brings the vehicle no closer to the next
\* station.  TRUE iff the fuel is never negative on arrival at a stop.
RECURSIVE ReplayFeasible(_, _, _, _)
ReplayFeasible(plan, k, f, p) ==
    IF k > Len(plan) THEN TRUE
    ELSE LET arrive == f - (plan[k].route_mile - p)
         IN  /\ arrive >= 0 - (k - 1) * GallonRoundingSlack
             /\ ReplayFeasible(plan, k + 1,
                               arrive - plan[k].detour_miles + RangeOf(plan[k].gallons),
                               plan[k].route_mile)

\* The most fuel the vehicle can hold when it leaves a station it reached
\* with f: it may fill up if it can afford the detour (kept under the tank
\* capacity even with the whole detour still to drive), or drive by.
BestFuelAfter(station, f) ==
    IF f >= DetourNeeded(station)
    THEN Max(f, MAX_RANGE - DetourNeeded(station))
    ELSE f

\* TRUE iff some sequence of purchases takes the vehicle over every gap of
\* sts (sorted, the destination last) from station k on.
RECURSIVE CanComplete(_, _, _, _)
CanComplete(sts, k, f, p) ==
    LET arrive == f - (sts[k].route_mile - p)
    IN  /\ arrive >= 0
        /\ \/ k = Len(sts)
           \/ CanComplete(sts, k + 1, BestFuelAfter(sts[k], arrive), sts[k].route_mile)

Feasible(total, list) == CanComplete(WithDestination(total, list), 1, MAX_RANGE, 0)

\* No plan: the cost of an infeasible plan
Unaffordable == 2^30

Min(a, b) == IF a <= b THEN a ELSE b

RECURSIVE MinOf(_)
MinOf(S) == IF S = {} THEN Unaffordable
            ELSE LET x == CHOOSE y \in S : TRUE IN Min(x, MinOf(S \ {x}))

\* The amounts of range worth buying at station k reached with f: none, a
\* full tank, or just enough to reach a later station and afford its detour.
\* A purchase needs the detour to be affordable and keeps the tank under
\* MAX_RANGE less the detour.
PurchaseChoices(sts, k, f) ==
    LET d == DetourNeeded(sts[k])
        fill == MAX_RANGE - f
        reach == { (sts[j].route_mile - sts[k].route_mile) + d + DetourNeeded(sts[j]) - f :
                      j \in (k + 1)..Len(sts) }
    IN  {0} \cup { b \in {fill} \cup reach : b > 0 /\ f >= d /\ f - d + b <= MAX_RANGE - d }

\* The least total spend of a plan that never runs dry from station k on,
\* detours counted as extra distance; Unaffordable when there is none.
RECURSIVE BestCost(_, _, _, _)
BestCost(sts, k, f, p) ==
    LET arrive == f - (sts[k].route_mile - p)
    IN  IF arrive < 0 THEN Unaffordable
        ELSE IF k = Len(sts) THEN 0
        ELSE MinOf({ LET rest == BestCost(sts, k + 1,
                                          IF b > 0 THEN arrive - DetourNeeded(sts[k]) + b
                                          ELSE arrive,
                                          sts[k].route_mile)
                     IN  IF rest >= Unaffordable THEN Unaffordable
                         ELSE CostOf(GallonsFor(b), sts[k].price) + rest :
                     b \in PurchaseChoices(sts, k, arrive) })

MinimumSpend(total, list) == BestCost(WithDestination(total, list), 1, MAX_RANGE, 0)

Abs(x) == IF x >= 0 THEN x ELSE 0 - x

\* the most a recorded cost may differ from recorded gallons x price: half a
\* cent, plus the price of half a unit of the 4th decimal of gallons
CostRoundingSlack(price) ==
    (MoneyUnit \div 10^2) \div 2 + ((GalUnit \div 10^4) \div 2) * price

\* ------------------------------------------------------------------------
\* Claims about optimize_fuel_stops_with_detours (specification Spec)
\* ------------------------------------------------------------------------

\* C1: whenever the optimizer returns normally, the fuel held after the last
\* station processed covers the remaining distance to the destination
\* (otherwise it raises the out-of-fuel error instead of returning).
C1_ReturnCoversDestination ==
    (pc = "returned" /\ Len(input) >= 1) => fuel >= total_distance - pos

\* C2: every returned plan stays feasible when detours are counted as extra
\* distance: replayed from a full tank, the fuel is never negative on arrival
\* at a stop.
C2_PlanFeasibleWithDetours ==
    pc = "returned" => ReplayFeasible(returned[1], 1, MAX_RANGE, 0)

\* C3: at every point of the simulation (after each travel step, detour
\* payment and purchase) the fuel level is at most MAX_RANGE and at least
\* -EPS.
C3_FuelWithinTank ==
    pc \in {"loop", "arrived", "decided", "paid", "returned"} =>
        (fuel <= MAX_RANGE /\ fuel >= 0)

\* C4: the out-of-fuel error is raised only when the route is infeasible
\* with the given stations.
C4_RaisesOnlyWhenInfeasible ==
    pc = "raised" => ~Feasible(total_distance, input)

\* C5: if total_distance <= MAX_RANGE and every station's route_mile lies in
\* [0, total_distance], the optimizer never raises the out-of-fuel error.
C5_ShortRouteNeverRaises ==
    (/\ total_distance <= MAX_RANGE
     /\ \A k \in 1..Len(input) :
           input[k].route_mile >= 0 /\ input[k].route_mile <= total_distance)
    => pc # "raised"

\* a short route with two stations on which the optimizer bought and returned
C5_Witness ==
    /\ total_distance <= MAX_RANGE
    /\ Len(input) >= 2
    /\ pc = "returned"
    /\ Len(returned[1]) >= 1

\* C6: the returned total cost is the minimum total spend over all feasible
\* purchase plans: no plan that never runs dry is cheaper.
C6_CostIsMinimal ==
    pc = "returned" =>
        \A cheapest \in Round2Money(MinimumSpend(total_distance, input)) :
            returned[2] <= cheapest

\* C7: every recorded stop has gallons > 0 and cost equal to gallons x price
\* within the rounding to 4 and 2 decimals.
C7_StopsBuyPositiveGallons ==
    \A k \in 1..Len(stops) :
        /\ stops[k].gallons > 0
        /\ Abs(stops[k].cost - CostOf(stops[k].gallons, stops[k].price))
              <= CostRoundingSlack(stops[k].price)

\* C8: when the next station lies further than the fuel on hand allows, the
\* optimizer raises 'Out of fuel before reaching <name>' naming exactly that
\* station and returns no stop list or cost, then or later.
C8_OutOfFuelNamesStation ==
    [][ /\ (/\ pc = "loop"
            /\ i < Len(stations)
            /\ fuel - (stations[i].route_mile - pos) < 0)
           => (/\ pc' = "raised"
               /\ raised' = "Out of fuel before reaching " \o stations[i].name
               /\ returned' = <<>>)
        /\ pc = "raised" => (pc' = "raised" /\ returned' = <<>>) ]_vars

\* the error is raised at the second station, after the first was processed
C8_Witness ==
    /\ pc = "raised"
    /\ i = 2
    /\ raised = "Out of fuel before reaching " \o stations[2].name
    /\ returned = <<>>


\* ---------------------------------------------------------------------------
\* Claims about RouteProcessorService.execute, checked under SpecExec

\* C9: when the cache lookup finds a plan stored under the request's key, the
\* plan handed to execute is exactly the stored one, and the next step of
\* execute returns that plan, having made no route-provider call, station
\* load, projection, optimization, map rendering or cache write, and leaving
\* the cache as it was.
C9_CacheHitReturnsCachedPlan ==
    [][ /\ ( /\ th[Worker].pc = "lookup"
             /\ th'[Worker].pc = "looked"
             /\ th'[Worker].cached # <<>> )
           => ( /\ KeyOf(Worker) \in DOMAIN cache_store
                /\ th'[Worker].cached = <<cache_store[KeyOf(Worker)]>> )
        /\ ( /\ th[Worker].pc = "looked"
             /\ th[Worker].cached # <<>>
             /\ th'[Worker] # th[Worker]
             /\ th'[Worker] # IdleThread )
           => ( /\ th'[Worker].pc = "done"
                /\ th'[Worker].outcome = <<"returned", th[Worker].cached[1]>>
                /\ th'[Worker].calls = {}
                /\ cache_store' = cache_store )
      ]_vars

\* a request answered from the cache: a plan without stops was found and returned
C9_Witness ==
    /\ th[Worker].pc = "done"
    /\ th[Worker].cached # <<>>
    /\ th[Worker].cached[1].stops = <<>>
    /\ th[Worker].outcome = <<"returned", th[Worker].cached[1]>>
    /\ th[Worker].calls = {}

\* C10: when a step of execute after the cache lookup fails (route fetch,
\* station load, projection, optimizer out of fuel, map rendering), execute
\* raises RoutePlanningError carrying the failure, returns no plan, and
\* neither the failing step nor the handler writes to the cache.
C10_FailureRaisesAndLeavesCache ==
    [][ ( /\ th'[Worker].pc \in {"except", "failed"}
          /\ th'[Worker] # th[Worker] )
        => ( /\ cache_store' = cache_store
             /\ th'[Worker].exc # ""
             /\ th'[Worker].calls \cap {"cache_set", "cache_set_failed"} = {}
             /\ th'[Worker].result = <<>>
             /\ th'[Worker].pc = "except" => th'[Worker].outcome = <<>>
             /\ th'[Worker].pc = "failed" =>
                   th'[Worker].outcome =
                      <<"RoutePlanningError", "Failed to plan route: " \o th[Worker].exc>> )
      ]_vars

\* the optimizer ran out of fuel inside execute: the request failed with
\* RoutePlanningError and nothing is cached under its key
C10_Witness ==
    /\ th[Worker].pc = "failed"
    /\ "optimize" \in th[Worker].calls
    /\ th[Worker].outcome[1] = "RoutePlanningError"
    /\ KeyOf(Worker) \notin DOMAIN cache_store


\* C11: a storage error during the cache read is a miss and a storage error
\* during the cache write is dropped: after either, execute goes on with the
\* pipeline, a request that completes returns the plan it computed, and a
\* request that fails does so only in a pipeline step of its own.
C11_CacheErrorsNeverEscalate ==
    LET w == th[Worker]
        failed_read == "cache_get_failed" \in w.calls
        failed_write == "cache_set_failed" \in w.calls
    IN  /\ failed_read =>
              /\ w.cached = <<>>
              /\ w.pc \in {"looked", "routed", "loading", "storing", "copying", "loaded",
                           "projected",
                           "optimized", "rendered", "stored", "done", "except", "failed"}
              /\ w.pc \in {"except", "failed"} => "get_route" \in w.calls
        /\ failed_write =>
              /\ w.pc \in {"stored", "done"}
              /\ w.exc = ""
              /\ {"get_route", "get_stations", "project", "optimize", "render_map"}
                     \subseteq w.calls
              /\ Len(w.result) = 1
              /\ w.result[1] \in ResultOf(Worker)
        /\ (w.pc = "done" /\ (failed_read \/ failed_write)) =>
              /\ "optimize" \in w.calls
              /\ w.outcome = <<"returned", w.result[1]>>
              /\ w.outcome[2] \in ResultOf(Worker)

\* a request whose cache read and cache write both failed, and which still
\* returned the plan it computed
C11_Witness ==
    /\ th[Worker].pc = "done"
    /\ {"cache_get_failed", "cache_set_failed"} \subseteq th[Worker].calls
    /\ th[Worker].outcome = <<"returned", th[Worker].result[1]>>
    /\ th[Worker].outcome[2] \in ResultOf(Worker)
    /\ th[Worker].outcome[2].stops # <<>>


\* ---------------------------------------------------------------------------
\* Claims about RouteCacheService._generate_key, checked under SpecKey

\* C12: _generate_key is a function of (start, finish, stations_hash) whose
\* result starts with the "route" prefix, and two calls give the same key only
\* when start, finish and stations_hash are all equal: a different station
\* fingerprint for the same endpoints gives a different key, and so do
\* swapped endpoints.
C12_KeyDeterminesItsInputs ==
    \A a \in keys, b \in keys :
        LET same_args == /\ a.start = b.start
                         /\ a.finish = b.finish
                         /\ a.stations_hash = b.stations_hash
        IN  /\ a.key[1] = "route"
            /\ same_args => a.key = b.key
            /\ a.key = b.key => same_args
            /\ ( /\ a.start = b.start /\ a.finish = b.finish
                 /\ a.stations_hash # b.stations_hash ) => a.key # b.key
            /\ ( /\ a.start = b.finish /\ a.finish = b.start
                 /\ a.start # a.finish
                 /\ a.stations_hash = b.stations_hash ) => a.key # b.key

\* keys were made for one pair of endpoints under two fingerprints, and for
\* the swapped pair
C12_Witness ==
    \E a \in keys, b \in keys, c \in keys :
        /\ a.start = b.start /\ a.finish = b.finish
        /\ a.stations_hash # b.stations_hash
        /\ c.start = a.finish /\ c.finish = a.start /\ c.start # c.finish
        /\ c.stations_hash = a.stations_hash
        /\ a.key # b.key /\ a.key # c.key


\* ---------------------------------------------------------------------------
\* Reference notions for the claims about the cache and the repository

\* the station dataset of the process: the snapshot of its repository, or
\* what it would load
ServingDataset ==
    IF instance # <<>> /\ objects[instance[1]] # <<>> THEN objects[instance[1]][1] ELSE disk

\* what execute answers to req from dataset when nothing is cached and no
\* collaborator fails
ExecuteWithoutCache(req, dataset) ==
    LET start_location == Coordinate(req.start)
        finish_location == Coordinate(req.finish)
        route == ProviderRoute(start_location, finish_location)
    IN  IF dataset \notin Datasets \/ Malformed(dataset)
        THEN { <<"RoutePlanningError">> }
        ELSE UNION {
               IF r.raised # ""
               THEN { <<"RoutePlanningError">> }
               ELSE { <<"returned",
                        [distance |-> rounded_distance,
                         stops |-> r.stops,
                         total_fuel_cost |-> rounded_cost,
                         map_url |-> MapFile(LocationKey(start_location,
                                                         finish_location))]>> :
                        rounded_distance \in Round1Miles(route.total_distance),
                        rounded_cost \in Round2Money(r.cost) } :
               r \in Optimize(route.total_distance, ProjectStations(route, dataset)) }

\* ---------------------------------------------------------------------------
\* Claims about the cache as an optimization, checked under SpecExec

\* C13: whenever execute answers a request from the cache, the plan it returns
\* is the plan it would compute without the cache from the station dataset of
\* the process serving the request, across requests, restarts and dataset
\* changes that share one cache store.
C13_CachedPlanEqualsRecomputed ==
    [][ ( /\ th[Worker].pc = "looked"
          /\ th'[Worker].pc = "done"
          /\ th[Worker].cached # <<>> )
        => th'[Worker].outcome \in ExecuteWithoutCache(th[Worker].req[1], ServingDataset)
      ]_vars


\* ---------------------------------------------------------------------------
\* Claims about concurrent requests, checked under SpecConc

\* both threads are in execute for the same key and both lookups missed
BothMissed ==
    /\ \A t \in Threads : /\ th[t].pc \notin {"idle", "new", "new_create", "new_return",
                                             "start", "lookup"}
                          /\ th[t].cached = <<>>
    /\ KeyOf("t1") = KeyOf("t2")

\* C16: when two execute calls for the same key both miss, each of them
\* that no collaborator fails computes its plan and writes it; every write
\* the backend takes leaves under the key exactly the plan of that write (the
\* last write wins) and touches no other entry, and a read the backend
\* answers returns the plan stored under the key by the latest write.
C16_LastWriteWins ==
    [][ \A t \in Threads :
          /\ ( /\ th[t].pc = "rendered" /\ th'[t].pc = "stored"
               /\ "cache_set" \in th'[t].calls )
             => ( /\ DOMAIN cache_store' = DOMAIN cache_store \cup {KeyOf(t)}
                  /\ cache_store'[KeyOf(t)] \in ResultOf(t)
                  /\ th'[t].result = <<cache_store'[KeyOf(t)]>>
                  /\ \A k \in DOMAIN cache_store \ {KeyOf(t)} :
                        cache_store'[k] = cache_store[k] )
          /\ ( /\ th[t].pc = "lookup" /\ th'[t].pc = "looked"
               /\ "cache_get_failed" \notin th'[t].calls )
             => th'[t].cached = IF KeyOf(t) \in DOMAIN cache_store
                                THEN <<cache_store[KeyOf(t)]>> ELSE <<>>
          /\ ( /\ BothMissed' /\ th'[t].pc \in {"stored", "done"}
               /\ "cache_set_failed" \notin th'[t].calls )
             => ( /\ {"get_route", "optimize", "cache_set"} \subseteq th'[t].calls
                  /\ th'[t].result # <<>>
                  /\ th'[t].pc = "done" => th'[t].outcome = <<"returned", th'[t].result[1]>> )
      ]_vars

\* two requests for the same key both missed, computed different plans (the
\* CSV was replaced between their loads) and both wrote: the cache holds the
\* plan of t2, not the plan t1 wrote before it
C16_Witness ==
    /\ BothMissed
    /\ \A t \in Threads : th[t].pc = "done" /\ "cache_set" \in th[t].calls
    /\ th["t1"].result # th["t2"].result
    /\ KeyOf("t1") \in DOMAIN cache_store
    /\ cache_store[KeyOf("t1")] = th["t2"].result[1]

\* ---------------------------------------------------------------------------
\* Claims about FuelStationRepository, checked under SpecRepo

\* C14: get_stations_hash gives one fingerprint per station dataset: two calls
\* made for the same dataset, before or after the snapshot is loaded, give the
\* same fingerprint, and two calls made for different datasets give different
\* fingerprints.
C14_FingerprintPerDataset ==
    \A a \in hashes, b \in hashes :
        (a.dataset \in Datasets /\ b.dataset \in Datasets)
           => (a.dataset = b.dataset <=> a.hash = b.hash)

\* C15: whatever the interleaving of the threads' constructions and
\* get_stations calls, there is at most one repository object, the catalogue
\* has been read from its source at most once, every thread that holds a
\* repository holds that one object, and all snapshots handed out are copies
\* of the same catalogue.
C15_OneInstanceOneLoad ==
    /\ Len(objects) <= 1
    /\ loads <= 1
    /\ \A t \in Threads : rt[t].self # <<>> => rt[t].self = instance
    /\ \A t \in Threads, u \in Threads :
          ( /\ rt[t].outcome # <<>> /\ rt[t].outcome[1] = "returned"
            /\ rt[u].outcome # <<>> /\ rt[u].outcome[1] = "returned" )
          => rt[t].outcome = rt[u].outcome

\* C17: a load that fails makes get_stations raise to its caller and leaves
\* the repository unloaded; every get_stations call that finds the repository
\* unloaded, after a failure as well, attempts the load, and once the source
\* is readable the call reads it and returns the snapshot.
C17_FailedLoadNotRemembered ==
    [][ \A t \in Threads :
          /\ ( /\ rt[t].pc = "read" /\ disk \notin Datasets /\ rt'[t] # rt[t] )
             => ( /\ rt'[t].outcome = <<"raised", "FileNotFoundError">>
                  /\ rt'[t].pc = "idle"
                  /\ objects' = objects
                  /\ loads' = loads )
          /\ ( /\ rt[t].pc = "check" /\ rt'[t] # rt[t]
               /\ objects[rt[t].self[1]] = <<>> )
             => rt'[t].pc = "read"
          /\ ( /\ rt[t].pc = "read" /\ disk \in Datasets /\ rt'[t] # rt[t] )
             => ( /\ rt'[t].df_read = <<disk>>
                  /\ rt'[t].pc = "assign" )
          /\ ( /\ rt[t].pc = "assign" /\ rt'[t] # rt[t] )
             => objects'[rt[t].self[1]] = rt[t].df_read
          /\ ( /\ rt[t].pc = "copy" /\ rt'[t] # rt[t] )
             => ( /\ objects[rt[t].self[1]] # <<>>
                  /\ objects[rt[t].self[1]][1] \in Datasets
                  /\ rt'[t].outcome = <<"returned", objects[rt[t].self[1]][1]>> )
      ]_vars

\* a thread whose first get_stations failed got the snapshot from a later call
C17_Witness ==
    \E t \in Threads :
        /\ rt[t].failures >= 1
        /\ rt[t].pc = "idle"
        /\ rt[t].outcome # <<>>
        /\ rt[t].outcome[1] = "returned"
        /\ rt[t].outcome[2] \in Datasets
        /\ loads = 1


\* ---------------------------------------------------------------------------
\* Reference notions for the claims about the projector

\* the waypoints of the route followed, as a set of indices
Waypoints == 1..Len(route_coords)

\* the distance from a station of the route's meridian to waypoint k
MilesToWaypoint(lat, k) == ArcLength(AbsDiff(lat, route_coords[k][1]))

\* the distance from such a station to the nearest waypoint
NearestWaypointMiles(lat) == MinOf({MilesToWaypoint(lat, k) : k \in Waypoints})

\* the length of the route up to waypoint k
RECURSIVE RouteMileAt(_)
RouteMileAt(k) ==
    IF k <= 1 THEN 0
    ELSE RouteMileAt(k - 1) + ArcLength(AbsDiff(route_coords[k][1], route_coords[k - 1][1]))

\* the rows given whose coordinates are numbers
NumericRows ==
    {k \in 1..Len(stations_in) : stations_in[k].Lat[1] = "num" /\ stations_in[k].Lon[1] = "num"}

\* the stops returned for the row labelled so
StopsOf(label) ==
    {k \in 1..Len(projected[2]) : projected[2][k].name = label}

\* ---------------------------------------------------------------------------
\* Claims about project_stations_with_detours and cumulative_distances,
\* checked under SpecPlan

\* C18: every stop project_stations_with_detours returns has detour_miles
\* <= MAX_DETOUR_MILES, and a station whose detour (twice its distance to the
\* nearest waypoint) is larger, or which lies degrees away from the route's
\* meridian, is not among the stops, however cheap it is.
C18_NoStopBeyondMaxDetour ==
    (ppc = "done" /\ projected[1] = "returned") =>
        /\ \A k \in 1..Len(projected[2]) : projected[2][k].detour_miles <= MAX_DETOUR_MILES
        /\ \A k \in NumericRows :
              LET r == stations_in[k]
              IN  ( \/ r.Lon[2] # RouteLon
                    \/ 2 * NearestWaypointMiles(r.Lat[2]) > MAX_DETOUR_MILES )
                  => StopsOf(r.label) = {}

\* a projection that returned stops although the cheapest station given, in
\* the corridor, lies beyond the maximal detour
C18_Witness ==
    /\ ppc = "done" /\ projected[1] = "returned"
    /\ projected[2] # <<>>
    /\ \E k \in NumericRows :
          /\ stations_in[k].Lon[2] = RouteLon
          /\ stations_in[k].price = 0
          /\ InCorridor(route_coords, [Lat |-> stations_in[k].Lat[2], Lon |-> RouteLon])
          /\ 2 * NearestWaypointMiles(stations_in[k].Lat[2]) > MAX_DETOUR_MILES
          /\ StopsOf(stations_in[k].label) = {}

\* the row given under a label
RowOf(label) == stations_in[label + 1]

\* C19: for every stop returned, distance_to_route is the smallest distance
\* from the station to a waypoint of the route, route_mile is the length of
\* the route up to a waypoint at that distance, detour_miles is twice
\* distance_to_route and on_route says that distance_to_route < 0.1 miles; a
\* station given exactly on a waypoint comes out with distance_to_route 0,
\* detour_miles 0 and on_route true.
C19_StopsMeasuredFromNearestWaypoint ==
    (ppc = "done" /\ projected[1] = "returned") =>
        /\ \A k \in 1..Len(projected[2]) :
              LET stop == projected[2][k]
                  lat == RowOf(stop.name).Lat[2]
              IN  /\ stop.Lat = lat
                  /\ stop.distance_to_route = NearestWaypointMiles(lat)
                  /\ \E w \in Waypoints :
                        /\ MilesToWaypoint(lat, w) = stop.distance_to_route
                        /\ stop.route_mile = RouteMileAt(w)
                  /\ stop.detour_miles = 2 * stop.distance_to_route
                  /\ stop.on_route <=> (stop.distance_to_route < OnRouteThreshold)
        /\ \A k \in NumericRows :
              (\E w \in Waypoints : <<stations_in[k].Lat[2], stations_in[k].Lon[2]>>
                                       = route_coords[w])
              => \E j \in StopsOf(stations_in[k].label) :
                    /\ projected[2][j].distance_to_route = 0
                    /\ projected[2][j].detour_miles = 0
                    /\ projected[2][j].on_route

\* a projection that returned a station lying on the second waypoint (at
\* that waypoint's route mile, with no detour) and a station off the route
C19_Witness ==
    /\ ppc = "done" /\ projected[1] = "returned"
    /\ \E j \in 1..Len(projected[2]), k \in 1..Len(projected[2]) :
          /\ projected[2][j].distance_to_route = 0
          /\ projected[2][j].on_route
          /\ projected[2][j].route_mile > 0
          /\ projected[2][k].distance_to_route > OnRouteThreshold
          /\ ~projected[2][k].on_route
          /\ projected[2][k].detour_miles = 2 * projected[2][k].distance_to_route

\* C20: the profile cumulative_distances returns for the waypoints given has
\* as many entries as there are waypoints, starts with 0 and never decreases.
C20_ProfileMatchesWaypoints ==
    ppc # "call" =>
        /\ Len(cumd) = Len(route_coords)
        /\ cumd[1] = 0
        /\ \A k \in 1..(Len(cumd) - 1) : cumd[k] <= cumd[k + 1]


\* C21: for a waypoint sequence of fewer than 2 points (none, or a single
\* one) the profile builder gives no profile: once cumulative_distances has
\* been called on such a sequence, nothing has been returned for it.
C21_DegenerateRouteGivesNoProfile ==
    (ppc # "call" /\ Len(route_coords) < 2) => cumd = <<>>

\* ------------------------------------------------------------------------
\* Further claims about optimize_fuel_stops_with_detours (specification Spec)
\* ------------------------------------------------------------------------

\* the scan of the stations ahead of station k, from station j on: TRUE when
\* it meets a strictly cheaper station before the end of the list and before
\* the first station further than MAX_RANGE (distance plus detour) from p
RECURSIVE ScanFindsCheaper(_, _, _, _)
ScanFindsCheaper(sts, k, j, p) ==
    IF j > Len(sts) THEN FALSE
    ELSE IF (sts[j].route_mile - p) + DetourNeeded(sts[j]) > MAX_RANGE THEN FALSE
    ELSE IF sts[j].price < sts[k].price THEN TRUE
    ELSE ScanFindsCheaper(sts, k, j + 1, p)

\* the level a fill-up brings the tank to at a station
FillLevel(station) == MAX_RANGE - DetourNeeded(station)

FillReason == "fill tank (no cheaper stations ahead)"

\* C22: at a station whose detour the fuel on hand covers, when the scan
\* ahead meets no strictly cheaper station within MAX_RANGE (it ran to the
\* destination or stopped at the first station beyond range), the decision
\* is a fill-tank purchase, unless the tank is already at the fill level.
C22_FillsWhenNoCheaperAhead ==
    (/\ pc = "decided"
     /\ ~ScanFindsCheaper(stations, i, i + 1, pos)
     /\ fuel < FillLevel(stations[i]))
        => (gallons > 0 /\ buy_reason = FillReason)

\* C23: right after a fill-tank purchase the fuel level is MAX_RANGE at an
\* on-route station and MAX_RANGE - detour_needed at an off-route station.
C23_FillReachesFillLevel ==
    (pc = "loop" /\ gallons > 0 /\ buy_reason = FillReason)
        => fuel = FillLevel(stations[i - 1])

\* the reason recorded for a purchase made to reach the station named n
ReachReason(n) == "to reach cheaper station at " \o n

\* the stations at whose stops a purchase was made to reach station number t
ReachStopsFor(t) ==
    { k \in 1..Len(stops) : stops[k].buy_reason = ReachReason(stations[t].name) }

\* C24: after a purchase made to reach cheaper station X, whatever happens at
\* the stations in between, no out-of-fuel error is raised on the way to X
\* and the vehicle arrives at X's route position with at least X's
\* detour_needed in the tank (so X is not skipped); when X is the
\* destination, the fuel held at the return covers the distance left.
C24_ReachPurchaseReachesTarget ==
    \A t \in 1..Len(stations) :
        ReachStopsFor(t) # {} =>
            /\ (pc = "raised" => i > t)
            /\ (pc = "arrived" /\ i = t => fuel >= DetourNeeded(stations[t]))
            /\ (pc = "returned" /\ t = Len(stations)
                    => fuel >= total_distance - pos)

\* a purchase made to reach the off-route station 2, and the vehicle now at
\* the route position of station 2
C24_Witness ==
    /\ pc = "arrived" /\ i = 2
    /\ ReachStopsFor(2) # {}
    /\ DetourNeeded(stations[2]) > 0

\* the stop last recorded was made at station number k to reach station
\* number t, and nothing was bought since
LastStopReaches(k, t) ==
    /\ stops # <<>>
    /\ stops[Len(stops)].name = stations[k].name
    /\ stops[Len(stops)].buy_reason = ReachReason(stations[t].name)

\* C25: a purchase made to reach cheaper station X aims at the first strictly
\* cheaper station in route order and buys just enough and no more: when
\* nothing is bought between the purchase and X, the fuel on arrival at X's
\* route position is exactly X's detour_needed (0 at the destination, where
\* the fuel held at the return is exactly the distance left).
C25_ReachPurchaseBuysJustEnough ==
    \A k \in 1..Len(stations) : \A t \in 1..Len(stations) :
        LastStopReaches(k, t) =>
            /\ k < t
            /\ stations[t].price < stations[k].price
            /\ \A m \in (k + 1)..(t - 1) : ~(stations[m].price < stations[k].price)
            /\ (pc = "arrived" /\ i = t => fuel = DetourNeeded(stations[t]))
            /\ (pc = "returned" /\ t = Len(stations)
                    => fuel = total_distance - pos)

\* the station the scan ahead of station k stops at, from station j on
\* (meaningful when ScanFindsCheaper: the first strictly cheaper station)
RECURSIVE ScanTarget(_, _, _, _)
ScanTarget(sts, k, j, p) ==
    IF j >= Len(sts) THEN Len(sts)
    ELSE IF sts[j].price < sts[k].price THEN j
    ELSE ScanTarget(sts, k, j + 1, p)

\* a strictly cheaper station is within range of station k and the fuel f
\* on hand at p covers the distance to it plus its detour
TargetCovered(sts, k, f, p) ==
    /\ ScanFindsCheaper(sts, k, k + 1, p)
    /\ LET x == sts[ScanTarget(sts, k, k + 1, p)]
       IN  f >= (x.route_mile - p) + DetourNeeded(x)

\* C26: a station produces a stop, and its detour is paid, only when a
\* purchase is made there: at a usable station from which a strictly cheaper
\* station is within range and already covered by the fuel on hand (distance
\* plus its detour), nothing is bought, so the station is passed with fuel,
\* position, total cost and stop list unchanged.
C26_NoStopWhenTargetCovered ==
    (pc = "decided" /\ TargetCovered(stations, i, fuel, pos)) => ~(gallons > 0)

\* ------------------------------------------------------------------------
\* optimize_fuel_stops_with_detours on a chain of stations one after the
\* other past the first tank, each up to ChainStep from the next, so that a
\* plan may stop at every one of them (specification SpecCost)
\* ------------------------------------------------------------------------
MaxChain == 4

\* 100.017 miles
ChainStep == Miles(100) + 170

ChainMile(k) == MAX_RANGE + (k - 1) * ChainStep

ChainTotal == ChainMile(MaxChain + 1)

ChainPrices == {32, 33, 34, 35}

ChainStationsAt(k) ==
    { [route_mile |-> ChainMile(k), price |-> p, name |-> StationName(k),
       detour_miles |-> kd.detour_miles, on_route |-> kd.on_route] :
         p \in ChainPrices, kd \in StationKinds }

RECURSIVE ChainListsOf(_)
ChainListsOf(n) ==
    IF n = 0 THEN { <<>> }
    ELSE { Append(l, s) : l \in ChainListsOf(n - 1), s \in ChainStationsAt(n) }

\* the chains of up to max stations
ChainLists(max) == UNION { ChainListsOf(n) : n \in 0..max }

\* one call of optimize_fuel_stops_with_detours on a chain
CostInit ==
    /\ total_distance = ChainTotal
    /\ input \in ChainLists(MaxChain)
    /\ stations = <<>>
    /\ fuel = 0 /\ pos = 0 /\ total_cost = 0 /\ stops = <<>> /\ i = 1
    /\ gallons = 0 /\ buy_reason = ""
    /\ pc = "call"
    /\ raised = ""
    /\ returned = <<>>
    /\ ProcIdle /\ FnIdle

SpecCost == CostInit /\ [][OptNext]_vars

\* sum(stop.get("cost", 0) for stop in stops)
RECURSIVE TotalCostFromStops(_)
TotalCostFromStops(list) ==
    IF list = <<>> THEN 0
    ELSE TotalCostFromStops(SubSeq(list, 1, Len(list) - 1)) + list[Len(list)].cost

\* RouteResponseSerializer.validate, as the set of its verdicts (TRUE: data
\* is returned, FALSE: ValidationError): the plan is refused when
\* abs(total_cost_from_stops - declared_total) > 0.01.  The test is made on
\* floats: when the sum and the total lie exactly one cent apart their float
\* difference is 0.01 give or take a rounding error, and the plan is refused
\* (37.41 + 96.02 against 133.42: 0.010000000000019327) or accepted
\* (0.02 against 0.01) with the error.
SerializerAccepts(list, declared_total) ==
    LET difference == Abs(TotalCostFromStops(list) - declared_total)
        cent == MoneyUnit \div 10^2
    IN  IF difference > cent THEN {FALSE}
        ELSE IF difference < cent THEN {TRUE}
        ELSE {TRUE, FALSE}

\* C27: for every plan the optimizer returns, the sum of the recorded stop
\* costs differs from the returned total cost by at most 0.01, so the
\* response serializer's consistency check accepts the plan, for any number
\* of stops.
C27_SerializerAcceptsEveryPlan ==
    pc = "returned" =>
        \A accepted \in SerializerAccepts(returned[1], returned[2]) : accepted

\* C28: the simulated position never moves backwards: whenever a station is
\* about to be driven to, the distance to its route position is >= 0 (so
\* the drive never raises the fuel level), also right after a purchase at an
\* off-route station whose detour was added to the position.
C28_NeverDrivesBackwards ==
    (pc = "loop" /\ i < Len(stations)) => TravelDistance(stations[i], pos) >= 0

\* ---------------------------------------------------------------------------
\* Claims about repeated requests of one process, checked under SpecExec

\* C29: once execute has answered a request with the cache working, the next
\* execute of the same start and finish in the same process (dataset unchanged,
\* no entry expired, cache working) finds the plan in the cache and never
\* calls the route provider; this includes the second request of a process.
C29_RepeatServedFromCache ==
    ( /\ th[Worker].req # <<>>
      /\ th[Worker].req[1] \in served
      /\ "cache_get_failed" \notin th[Worker].calls )
        => /\ (th[Worker].pc = "looked" => Truthy(th[Worker].cached))
           /\ "get_route" \notin th[Worker].calls

\* ---------------------------------------------------------------------------
\* The optimizer as a function of the set of stations (specification Spec)

\* every ordering of the stations of a list
Orderings(list) ==
    { [k \in 1..Len(list) |-> list[f[k]]] :
        f \in { g \in [1..Len(list) -> 1..Len(list)] :
                  \A a, b \in 1..Len(list) : a # b => g[a] # g[b] } }

\* C30: the result depends only on the set of stations, not on the order in
\* which they are passed: whatever the call returns or raises for the list
\* given, it returns the same purchases and the same total cost, or raises
\* as well, for every other ordering of the same stations, stations sharing
\* a route_mile included.
C30_ResultIndependentOfOrder ==
    \A other \in Orderings(input) :
        /\ pc = "returned" =>
              [raised |-> "", stops |-> returned[1], cost |-> returned[2]]
                  \in Optimize(total_distance, other)
        /\ pc = "raised" => \A r \in Optimize(total_distance, other) : r.raised # ""

=============================================================================
